---------------------------- MODULE Spec2Model ----------------------------
(***************************************************************************)
(* Model of backend/parse_ifc.py: the extraction of one element's record   *)
(* (extract_element_data), the storey map (build_storey_map), the spatial  *)
(* tree (build_spatial_tree) and the run of parse_ifc_file against the     *)
(* persistence boundary.                                                   *)
(*                                                                         *)
(* Strings that the code only copies are TLA+ strings.  Property names,    *)
(* which the code normalises and searches, are sequences of characters.    *)
(* Floating point values are integers counting units of 10^-7, so that     *)
(* round(x, 6) has something to round.                                     *)
(***************************************************************************)
EXTENDS Integers, Sequences, FiniteSets, TLC

VARIABLES
    pc,               \* position of the run / of the function under study
    \* ---- the model graph, as the code reads it
    element,          \* express id of the element handed to extract_element_data
    psets,            \* get_psets(element): <<[name, props: <<[k, v]>>]>>, empty if it raises
    qsets,            \* get_psets(element, qtos_only=True), same shape
    material,         \* get_material(element)
    associations,     \* element.HasAssociations
    rels,             \* model.by_type("IfcRelContainedInSpatialStructure")
    etype,            \* entity id -> entity.is_a()
    children,         \* entity id -> related objects of IsDecomposedBy, in order
    total,            \* len(all_elements)
    \* ---- what the code computes
    storey_map,       \* build_storey_map(model)
    record,           \* the dict returned by extract_element_data
    spatial_nodes,    \* build_spatial_tree(model)
    sidx,             \* i of the spatial batch loop
    idx,              \* number of elements the element loop has gone through
    rows,             \* rows of the element loop
    \* ---- the persistence boundary
    model_rec,        \* the ifc_models row of this run
    spatial_flushed,  \* batches inserted into ifc_spatial_tree, in order
    element_flushed,  \* batches inserted into ifc_elements, in order
    writes,           \* the kinds of the boundary writes that succeeded, in order
    \* ---- history
    assembled,        \* the rows appended by the element loop, in order
    failed,           \* positions of the elements whose assembly raised
    crash             \* what was persisted when a boundary write raised

vars == <<pc, element, psets, qsets, material, associations, rels, etype,
          children, total, storey_map, record, spatial_nodes, sidx, idx, rows,
          model_rec, spatial_flushed, element_flushed, writes, assembled,
          failed, crash>>

graphVars == <<element, psets, qsets, material, associations, rels, etype,
               children, total>>

runVars == <<spatial_nodes, sidx, idx, rows, model_rec, spatial_flushed,
             element_flushed, writes, assembled, failed, crash>>

-----------------------------------------------------------------------------
(* Bounds of the explored inputs.                                          *)

MaxEntries == 2      \* property and quantity entries of one element
MaxItems == 2        \* layers / list items / constituents of one material
MaxAssociations == 2 \* association relations of one element
MaxRels == 2         \* containment relations of one model
MaxEntities == 3     \* entities of the decomposition graph
MaxEdges == 3        \* decomposition edges (parent, child) of one model
ExtraElements == 1   \* elements beyond two full element batches
ExtraNodes == 1      \* spatial nodes beyond one full spatial batch

-----------------------------------------------------------------------------
(* Python values.                                                          *)

PyNone == [t |-> "none", n |-> 0, s |-> ""]
PyInt(n) == [t |-> "int", n |-> n, s |-> ""]
PyFloat(units) == [t |-> "float", n |-> units, s |-> ""]
PyBool(b) == [t |-> "bool", n |-> IF b THEN 1 ELSE 0, s |-> ""]
PyStr(s) == [t |-> "str", n |-> 0, s |-> s]
PyRef(text) == [t |-> "ref", n |-> 0, s |-> text]

\* units of 10^-7 in 1.0
UnitsPerOne == 10000000

\* isinstance(v, (int, float)): bool is a subclass of int
IsIntOrFloat(v) == v.t \in {"int", "float", "bool"}

\* float(v) for a v that passed IsIntOrFloat
ToFloat(v) == IF v.t = "float" THEN v.n ELSE v.n * UnitsPerOne

\* round(x, 6) of a non-negative x; no input of the model lies on a tie
Round6(x) == ((x + 5) \div 10) * 10

\* safe_value
safe_value(val) ==
    IF val.t = "none" THEN PyNone
    ELSE IF val.t \in {"int", "float", "bool"} THEN val
    ELSE IF val.t = "str" THEN val
    ELSE PyStr(val.s)

-----------------------------------------------------------------------------
(* Key sets and key matching.                                              *)

VOLUME_KEYS ==
    { <<"n","e","t","v","o","l","u","m","e">>,
      <<"g","r","o","s","s","v","o","l","u","m","e">>,
      <<"v","o","l","u","m","e">> }

AREA_KEYS ==
    { <<"n","e","t","a","r","e","a">>,
      <<"g","r","o","s","s","a","r","e","a">>,
      <<"n","e","t","s","i","d","e","a","r","e","a">>,
      <<"g","r","o","s","s","s","i","d","e","a","r","e","a">>,
      <<"a","r","e","a">>,
      <<"c","r","o","s","s","s","e","c","t","i","o","n","a","r","e","a">>,
      <<"o","u","t","e","r","s","u","r","f","a","c","e","a","r","e","a">>,
      <<"t","o","t","a","l","s","u","r","f","a","c","e","a","r","e","a">>,
      <<"n","e","t","s","u","r","f","a","c","e","a","r","e","a">> }

HEIGHT_KEYS ==
    { <<"h","e","i","g","h","t">>,
      <<"o","v","e","r","a","l","l","h","e","i","g","h","t">>,
      <<"n","o","m","i","n","a","l","h","e","i","g","h","t">> }

LENGTH_KEYS ==
    { <<"l","e","n","g","t","h">>,
      <<"o","v","e","r","a","l","l","l","e","n","g","t","h">>,
      <<"n","o","m","i","n","a","l","l","e","n","g","t","h">>,
      <<"s","p","a","n">> }

WIDTH_KEYS ==
    { <<"w","i","d","t","h">>,
      <<"o","v","e","r","a","l","l","w","i","d","t","h">>,
      <<"n","o","m","i","n","a","l","w","i","d","t","h">> }

PERIMETER_KEYS ==
    { <<"p","e","r","i","m","e","t","e","r">>,
      <<"g","r","o","s","s","p","e","r","i","m","e","t","e","r">>,
      <<"n","e","t","p","e","r","i","m","e","t","e","r">> }

WEIGHT_KEYS ==
    { <<"w","e","i","g","h","t">>,
      <<"g","r","o","s","s","w","e","i","g","h","t">>,
      <<"n","e","t","w","e","i","g","h","t">> }

CONCRETE_KEYS ==
    { <<"c","o","n","c","r","e","t","e","s","t","r","e","n","g","t","h">>,
      <<"c","o","n","c","r","e","t","e","c","l","a","s","s">>,
      <<"c","o","n","c","r","e","t","e","g","r","a","d","e">>,
      <<"c","l","a","s","s","o","f","c","o","n","c","r","e","t","e">>,
      <<"s","t","r","e","n","g","t","h","c","l","a","s","s">> }

UpperChars ==
    <<"A","B","C","D","E","F","G","H","I","J","K","L","M",
      "N","O","P","Q","R","S","T","U","V","W","X","Y","Z">>
LowerChars ==
    <<"a","b","c","d","e","f","g","h","i","j","k","l","m",
      "n","o","p","q","r","s","t","u","v","w","x","y","z">>

\* str.lower() of one character
Lower(c) ==
    IF \E i \in DOMAIN UpperChars : UpperChars[i] = c
    THEN LowerChars[CHOOSE i \in DOMAIN UpperChars : UpperChars[i] = c]
    ELSE c

IsSeparator(c) == c \in {" ", "_", "-"}

\* normalize_key
normalize_key(name) ==
    LET lowered == [i \in DOMAIN name |-> Lower(name[i])]
        Keep(c) == ~IsSeparator(c)
    IN  SelectSeq(lowered, Keep)

\* k in nk
IsSubstring(k, nk) ==
    \E off \in 0..(Len(nk) - Len(k)) : SubSeq(nk, off + 1, off + Len(k)) = k

\* match_keys
match_keys(name, key_set) ==
    LET nk == normalize_key(name)
    IN  \E k \in key_set : IsSubstring(k, nk)

\* the seven numeric categories in the order of the if/elif chain
Categories ==
    <<"volume", "area", "height", "length", "width", "perimeter", "weight">>

KeySetOf ==
    [volume |-> VOLUME_KEYS, area |-> AREA_KEYS, height |-> HEIGHT_KEYS,
     length |-> LENGTH_KEYS, width |-> WIDTH_KEYS,
     perimeter |-> PERIMETER_KEYS, weight |-> WEIGHT_KEYS,
     concrete_class |-> CONCRETE_KEYS]

\* property names of the explored elements
NetVolumeName == <<"N","e","t"," ","V","o","l","u","m","e">>
WeightPerLengthName ==
    <<"W","e","i","g","h","t","P","e","r","L","e","n","g","t","h">>
WeightName == <<"W","e","i","g","h","t">>
IdName == <<"i","d">>
KeyNames == {NetVolumeName, WeightPerLengthName, WeightName, IdName}

\* match_keys over the explored names, evaluated once
MatchTable ==
    [name \in KeyNames |->
        [c \in DOMAIN KeySetOf |-> match_keys(name, KeySetOf[c])]]

Matches(name, c) == MatchTable[name][c]

-----------------------------------------------------------------------------
(* extract_element_data: property and quantity sets.                       *)

\* the loop body that fills clean_props / clean_q
CleanProps(props) ==
    LET NotId(e) == e.k # IdName
        kept == SelectSeq(props, NotId)
    IN  [j \in DOMAIN kept |-> [k |-> kept[j].k, v |-> safe_value(kept[j].v)]]

\* the loops that fill psets / qsets
CleanSets(sets) ==
    [j \in DOMAIN sets |->
        [name |-> sets[j].name, props |-> CleanProps(sets[j].props)]]

\* `not volume`, `not area`, ...: the field has not been claimed
UnclaimedMutant(field) == TRUE
Unclaimed(field) == field = 0

\* the claims of a scan before its first entry
NoClaims ==
    [volume |-> 0, area |-> 0, height |-> 0, length |-> 0, width |-> 0,
     perimeter |-> 0, weight |-> 0, concrete_class |-> ""]

\* the if/elif chain of one entry with fv > 0
ClaimNumeric(acc, k, fv) ==
    IF Unclaimed(acc.volume) /\ Matches(k, "volume")
        THEN [acc EXCEPT !.volume = fv]
    ELSE IF Unclaimed(acc.area) /\ Matches(k, "area")
        THEN [acc EXCEPT !.area = fv]
    ELSE IF Unclaimed(acc.height) /\ Matches(k, "height")
        THEN [acc EXCEPT !.height = fv]
    ELSE IF Unclaimed(acc.length) /\ Matches(k, "length")
        THEN [acc EXCEPT !.length = fv]
    ELSE IF Unclaimed(acc.width) /\ Matches(k, "width")
        THEN [acc EXCEPT !.width = fv]
    ELSE IF Unclaimed(acc.perimeter) /\ Matches(k, "perimeter")
        THEN [acc EXCEPT !.perimeter = fv]
    ELSE IF Unclaimed(acc.weight) /\ Matches(k, "weight")
        THEN [acc EXCEPT !.weight = fv]
    ELSE acc

\* the body of `for k, v in props.items()`
ScanEntry(acc, k, v) ==
    IF v = PyNone THEN acc
    ELSE
        LET hasFv == IsIntOrFloat(v)
            acc1 == IF hasFv /\ ToFloat(v) > 0
                    THEN ClaimNumeric(acc, k, ToFloat(v))
                    ELSE acc
        IN  IF acc1.concrete_class = "" /\ v.t = "str"
               /\ Matches(k, "concrete_class")
            THEN [acc1 EXCEPT !.concrete_class = v.s]
            ELSE acc1

RECURSIVE ScanProps(_, _, _)
\* `for k, v in props.items()` from entry j on
ScanProps(props, j, acc) ==
    IF j > Len(props) THEN acc
    ELSE ScanProps(props, j + 1, ScanEntry(acc, props[j].k, props[j].v))

RECURSIVE ScanSets(_, _, _)
\* `for pset_name, props in source.items()` from set j on
ScanSets(sets, j, acc) ==
    IF j > Len(sets) THEN acc
    ELSE ScanSets(sets, j + 1, ScanProps(sets[j].props, 1, acc))

\* `for source in [psets, qsets]`
ScanSources(ps, qs) == ScanSets(qs, 1, ScanSets(ps, 1, NoClaims))

-----------------------------------------------------------------------------
(* extract_element_data: materials.                                        *)

RECURSIVE CollectNames(_, _, _, _)
\* the loops over layers, list items and constituents, from item j on; an
\* exception leaves the loop with what materials already holds
CollectNames(items, j, acc, skipsAbsent) ==
    IF j > Len(items) THEN acc
    ELSE IF items[j].tag = "raises" THEN acc
    ELSE IF items[j].tag = "nomat"
        THEN IF skipsAbsent THEN CollectNames(items, j + 1, acc, skipsAbsent)
             ELSE acc
    ELSE CollectNames(items, j + 1, Append(acc, items[j].name), skipsAbsent)

\* the try block that fills materials
ResolveMaterials(mat) ==
    IF mat.kind \in {"none", "raises"} THEN <<>>
    ELSE IF mat.kind = "IfcMaterial" THEN <<mat.name>>
    ELSE IF mat.kind \in {"IfcMaterialLayerSetUsage", "IfcMaterialLayerSet"}
        THEN IF mat.kind = "IfcMaterialLayerSet" \/ mat.has_set
             THEN CollectNames(mat.items, 1, <<>>, TRUE)
             ELSE <<>>
    ELSE IF mat.kind = "IfcMaterialList"
        THEN CollectNames(mat.items, 1, <<>>, FALSE)
    ELSE IF mat.kind = "IfcMaterialConstituentSet"
        THEN CollectNames(mat.items, 1, <<>>, TRUE)
    ELSE <<>>

\* [m for m in materials if m]
NonEmptyNames(names) ==
    LET Truthy(m) == m # ""
    IN  SelectSeq(names, Truthy)

-----------------------------------------------------------------------------
(* extract_element_data: classifications.                                  *)

\* a string as the sequence of its non-empty pieces
Text(s) == IF s = "" THEN <<>> ELSE <<s>>

\* the body of the loop over HasAssociations for a classification relation
ClassificationString(rel) ==
    LET code == IF rel.item_reference # "" THEN rel.item_reference
                ELSE rel.identification
    IN  IF code # "" THEN Text(code) \o <<": ">> \o Text(rel.cname)
        ELSE Text(rel.cname)

RECURSIVE CollectClassifications(_, _, _)
\* the try block that fills classifications, from relation j on; an
\* exception leaves the loop with what classifications already holds
CollectClassifications(assocs, j, acc) ==
    IF j > Len(assocs) THEN acc
    ELSE IF assocs[j].kind = "raises" THEN acc
    ELSE IF assocs[j].kind = "IfcRelAssociatesClassification"
            /\ assocs[j].has_ref
        THEN CollectClassifications(assocs, j + 1,
                 Append(acc, ClassificationString(assocs[j])))
    ELSE CollectClassifications(assocs, j + 1, acc)

\* [c for c in classifications if c]
NonEmptyTexts(texts) ==
    LET Truthy(c) == c # <<>>
    IN  SelectSeq(texts, Truthy)

-----------------------------------------------------------------------------
(* extract_element_data: the record.                                       *)

\* storey_map.get(express_id, "")
StoreyGet(map, id) == IF id \in DOMAIN map THEN map[id] ELSE ""

\* the dict returned by extract_element_data; the fields the function only
\* copies from the element, and search_text, are left out
ExtractRecord(id, ps, qs, mat, assocs, map) ==
    LET cps == CleanSets(ps)
        cqs == CleanSets(qs)
        claims == ScanSources(cps, cqs)
    IN  [express_id |-> id,
         volume |-> Round6(claims.volume),
         area |-> Round6(claims.area),
         height |-> Round6(claims.height),
         length |-> Round6(claims.length),
         width |-> Round6(claims.width),
         perimeter |-> Round6(claims.perimeter),
         weight |-> Round6(claims.weight),
         floor_name |-> StoreyGet(map, id),
         materials |-> NonEmptyNames(ResolveMaterials(mat)),
         classifications |-> NonEmptyTexts(CollectClassifications(assocs, 1, <<>>)),
         concrete_class |-> claims.concrete_class,
         property_sets |-> cps,
         quantity_sets |-> cqs]

\* no record has been returned
NoRecord == <<>>

\* extract_element_data(element, model, storey_map)
ExtractElementData ==
    /\ pc = "extract"
    /\ record' = ExtractRecord(element, psets, qsets, material, associations,
                               storey_map)
    /\ pc' = "extracted"
    /\ UNCHANGED <<graphVars, storey_map, runVars>>

-----------------------------------------------------------------------------
(* build_storey_map.                                                       *)

\* getattr(structure, "Name", "") or getattr(structure, "LongName", "") or ""
DisplayName(rel) ==
    IF rel.name # "" THEN rel.name
    ELSE IF rel.long_name # "" THEN rel.long_name
    ELSE ""

\* storey_map[element.id()] = storey_name
MapAssignMutant(map, id, name) ==
    IF id \in DOMAIN map THEN map
    ELSE [x \in DOMAIN map \cup {id} |-> IF x = id THEN name ELSE map[x]]
MapAssign(map, id, name) ==
    [x \in DOMAIN map \cup {id} |-> IF x = id THEN name ELSE map[x]]

RECURSIVE AssignElements(_, _, _)
\* `for element in rel.RelatedElements or []` from element j on; returns the
\* map and whether element.id() raised
AssignElements(map, rel, j) ==
    IF j > Len(rel.elems) THEN [map |-> map, raised |-> FALSE]
    ELSE IF rel.raises_at = j THEN [map |-> map, raised |-> TRUE]
    ELSE AssignElements(MapAssign(map, rel.elems[j], DisplayName(rel)),
                        rel, j + 1)

RECURSIVE StoreyMapFrom(_, _, _)
\* the try block of build_storey_map from relation r on: the first
\* exception ends the loop over the relations
StoreyMapFrom(rs, r, map) ==
    IF r > Len(rs) THEN map
    ELSE IF rs[r].raises_at = 0 THEN map
    ELSE IF ~rs[r].has_structure THEN StoreyMapFrom(rs, r + 1, map)
    ELSE LET res == AssignElements(map, rs[r], 1)
         IN  IF res.raised THEN res.map
             ELSE StoreyMapFrom(rs, r + 1, res.map)

\* build_storey_map(model)
BuildStoreyMap ==
    /\ pc = "storey"
    /\ storey_map' = StoreyMapFrom(rels, 1, <<>>)
    /\ pc' = "extract"
    /\ UNCHANGED <<graphVars, record, runVars>>

-----------------------------------------------------------------------------
(* build_spatial_tree.                                                     *)

SPATIAL_TYPES ==
    <<"IfcProject", "IfcSite", "IfcBuilding", "IfcBuildingStorey", "IfcSpace">>

IsSpatialType(t) == \E i \in DOMAIN SPATIAL_TYPES : SPATIAL_TYPES[i] = t

\* parent_id=None
Absent == 0

\* the dict appended to nodes (its name, long name, elevation and element
\* count are left out)
Node(e, types, parent_id) ==
    [express_id |-> e, ifc_type |-> types[e], parent_express_id |-> parent_id]

RECURSIVE ProcessSpatial(_, _, _, _)
RECURSIVE ChildNodes(_, _, _, _, _)

\* `for child in rel.RelatedObjects: process_spatial(child, entity.id())`
\* for the children lo..hi of entity e
ChildNodes(e, types, kids, lo, hi) ==
    IF lo > hi THEN <<>>
    ELSE IF lo = hi THEN ProcessSpatial(kids[e][lo], types, kids, e)
    ELSE LET mid == (lo + hi) \div 2
         IN  ChildNodes(e, types, kids, lo, mid)
                 \o ChildNodes(e, types, kids, mid + 1, hi)

\* the node emitted after its subtree instead of before it
ProcessSpatialMutant(e, types, kids, parent_id) ==
    IF ~IsSpatialType(types[e]) THEN <<>>
    ELSE ChildNodes(e, types, kids, 1, Len(kids[e]))
             \o <<Node(e, types, parent_id)>>

\* process_spatial(entity, parent_id): the nodes it appends, in order
ProcessSpatial(e, types, kids, parent_id) ==
    IF ~IsSpatialType(types[e]) THEN <<>>
    ELSE <<Node(e, types, parent_id)>>
             \o ChildNodes(e, types, kids, 1, Len(kids[e]))

\* model.by_type("IfcProject"), in model order
Projects(types) ==
    LET IsProject(e) == types[e] = "IfcProject"
    IN  SelectSeq([e \in 1..Len(types) |-> e], IsProject)

RECURSIVE ProjectNodes(_, _, _, _)
\* `for project in model.by_type("IfcProject"): process_spatial(project)`
\* from the j-th project on
ProjectNodes(types, kids, projects, j) ==
    IF j > Len(projects) THEN <<>>
    ELSE ProcessSpatial(projects[j], types, kids, Absent)
             \o ProjectNodes(types, kids, projects, j + 1)

\* build_spatial_tree(model)
SpatialTree(types, kids) == ProjectNodes(types, kids, Projects(types), 1)

BuildSpatialTree ==
    /\ pc = "tree"
    /\ spatial_nodes' = SpatialTree(etype, children)
    /\ pc' = "treed"
    /\ UNCHANGED <<graphVars, storey_map, record, sidx, idx, rows, model_rec,
                   spatial_flushed, element_flushed, writes, assembled,
                   failed, crash>>

-----------------------------------------------------------------------------
(* parse_ifc_file.                                                         *)

\* range(0, len(spatial_nodes), 500)
SPATIAL_BATCH == 500

\* len(rows) >= 1000
ELEMENT_BATCH == 1000

\* positions in all_elements of the elements whose assembly may raise
FailPositions == {1, 2, ELEMENT_BATCH}

\* express id of the k-th element of all_elements: the elements follow the
\* entities of the decomposition graph
ElementId(k) == Len(etype) + k

Min(a, b) == IF a <= b THEN a ELSE b

\* the boundary as it stands, kept when a write raises
Persisted(at) ==
    [at |-> at, model_rec |-> model_rec, spatial |-> spatial_flushed,
     elements |-> element_flushed, writes |-> writes]

\* where the run stands after a boundary write raised: no handler encloses
\* the execute() calls, the exception leaves parse_ifc_file
AfterFailedWriteMutant(next) == next
AfterFailedWrite(next) == "crashed"

\* supabase.table("ifc_models").insert({... "parse_status": "parsing"})
InsertModel ==
    /\ pc = "start"
    /\ \E ok \in BOOLEAN :
          IF ok
          THEN /\ model_rec' = [status |-> "parsing", element_count |-> -1]
               /\ writes' = Append(writes, "model_insert")
               /\ pc' = "build"
               /\ crash' = crash
          ELSE /\ pc' = AfterFailedWrite("build")
               /\ crash' = Persisted("model_insert")
               /\ UNCHANGED <<model_rec, writes>>
    /\ UNCHANGED <<graphVars, storey_map, record, spatial_nodes, sidx, idx,
                   rows, spatial_flushed, element_flushed, assembled, failed>>

\* storey_map = build_storey_map(model); spatial_nodes =
\* build_spatial_tree(model); `if spatial_nodes:`
BuildMaps ==
    /\ pc = "build"
    /\ storey_map' = StoreyMapFrom(rels, 1, <<>>)
    /\ spatial_nodes' = SpatialTree(etype, children)
    /\ pc' = IF spatial_nodes' # <<>> THEN "spatial" ELSE "elements"
    /\ UNCHANGED <<graphVars, record, sidx, idx, rows, model_rec,
                   spatial_flushed, element_flushed, writes, assembled,
                   failed, crash>>

\* spatial_nodes[i:i + 500]
SpatialSliceMutant(nodes, i) ==
    SubSeq(nodes, i + 1, Min(i + SPATIAL_BATCH + 1, Len(nodes)))
SpatialSlice(nodes, i) ==
    SubSeq(nodes, i + 1, Min(i + SPATIAL_BATCH, Len(nodes)))

\* one round of `for i in range(0, len(spatial_nodes), 500)`
FlushSpatialBatch ==
    /\ pc = "spatial"
    /\ LET batch == SpatialSlice(spatial_nodes, sidx)
           next == IF sidx + SPATIAL_BATCH < Len(spatial_nodes)
                   THEN "spatial" ELSE "elements"
       IN  \E ok \in BOOLEAN :
              IF ok
              THEN /\ spatial_flushed' = Append(spatial_flushed, batch)
                   /\ writes' = Append(writes, "spatial_batch")
                   /\ pc' = next
                   /\ crash' = crash
              ELSE /\ pc' = AfterFailedWrite(next)
                   /\ crash' = Persisted("spatial_batch")
                   /\ UNCHANGED <<spatial_flushed, writes>>
    /\ sidx' = sidx + SPATIAL_BATCH
    /\ UNCHANGED <<graphVars, storey_map, record, spatial_nodes, idx, rows,
                   model_rec, element_flushed, assembled, failed>>

\* len(rows) >= 1000
ShouldFlushMutant(rs) == Len(rs) > ELEMENT_BATCH
ShouldFlush(rs) == Len(rs) >= ELEMENT_BATCH

\* the element loop after the handler of one round: the round is over
AfterRoundMutant(i, raised) == IF raised THEN total ELSE i + 1
AfterRound(i, raised) == i + 1

\* one round of `for i, element in enumerate(all_elements)`; a row is the
\* express id of its record
ProcessElement ==
    /\ pc = "elements"
    /\ idx < total
    /\ \E raises \in BOOLEAN :
          /\ raises => (idx + 1) \in FailPositions
          /\ LET rows2 == IF raises THEN rows
                          ELSE Append(rows, ElementId(idx + 1))
             IN  /\ assembled' = IF raises THEN assembled
                                 ELSE Append(assembled, ElementId(idx + 1))
                 /\ failed' = IF raises THEN failed \cup {idx + 1} ELSE failed
                 /\ idx' = AfterRound(idx, raises)
                 /\ IF ShouldFlush(rows2)
                    THEN \E ok \in BOOLEAN :
                            IF ok
                            THEN /\ element_flushed' = Append(element_flushed, rows2)
                                 /\ writes' = Append(writes, "element_batch")
                                 /\ rows' = <<>>
                                 /\ pc' = pc
                                 /\ crash' = crash
                            ELSE /\ pc' = AfterFailedWrite(pc)
                                 /\ crash' = Persisted("element_batch")
                                 /\ rows' = rows2
                                 /\ UNCHANGED <<element_flushed, writes>>
                    ELSE /\ rows' = rows2
                         /\ UNCHANGED <<pc, element_flushed, writes, crash>>
    /\ UNCHANGED <<graphVars, storey_map, record, spatial_nodes, sidx,
                   model_rec, spatial_flushed>>

\* `if rows:` after the loop
FinalFlush ==
    /\ pc = "elements"
    /\ idx >= total
    /\ IF rows # <<>>
       THEN \E ok \in BOOLEAN :
               IF ok
               THEN /\ element_flushed' = Append(element_flushed, rows)
                    /\ writes' = Append(writes, "element_batch")
                    /\ pc' = "update"
                    /\ crash' = crash
               ELSE /\ pc' = AfterFailedWrite("update")
                    /\ crash' = Persisted("element_batch")
                    /\ UNCHANGED <<element_flushed, writes>>
       ELSE /\ pc' = "update"
            /\ UNCHANGED <<element_flushed, writes, crash>>
    /\ UNCHANGED <<graphVars, storey_map, record, spatial_nodes, sidx, idx,
                   rows, model_rec, spatial_flushed, assembled, failed>>

\* "element_count": total
ElementCountMutant == Len(assembled)
ElementCount == total

\* supabase.table("ifc_models").update({"parse_status": "done", ...})
UpdateModel ==
    /\ pc = "update"
    /\ \E ok \in BOOLEAN :
          IF ok
          THEN /\ model_rec' = [status |-> "done",
                                 element_count |-> ElementCount]
               /\ writes' = Append(writes, "model_update")
               /\ pc' = "done"
               /\ crash' = crash
          ELSE /\ pc' = AfterFailedWrite("done")
               /\ crash' = Persisted("model_update")
               /\ UNCHANGED <<model_rec, writes>>
    /\ UNCHANGED <<graphVars, storey_map, record, spatial_nodes, sidx, idx,
                   rows, spatial_flushed, element_flushed, assembled, failed>>

-----------------------------------------------------------------------------
(* The explored elements.                                                  *)

\* raw values of the explored entries: 5.2567891, 2, True, a string, an
\* entity reference, -1 and None
ValuePalette ==
    {PyFloat(52567891), PyInt(2), PyBool(TRUE), PyStr("C30"),
     PyRef("#7=IfcLabel('C30')"), PyInt(-1), PyNone}

\* sets 1 and 2 are property sets, set 3 is a quantity set
SetNames == <<"Pset_WallCommon", "Pset_Custom", "Qto_WallBaseQuantities">>

FlatEntry == [set : DOMAIN SetNames, k : KeyNames, v : ValuePalette]

\* entries in scan order: sets in order, no key twice in one set
FlatInputs ==
    {f \in UNION {[1..n -> FlatEntry] : n \in 0..MaxEntries} :
        \A i, j \in DOMAIN f :
            i < j => /\ f[i].set <= f[j].set
                     /\ (f[i].set = f[j].set => f[i].k # f[j].k)}

\* the mapping get_psets returns for the sets `ids` of the flat entries
SetsOf(flat, ids) ==
    LET Present(id) == \E j \in DOMAIN flat : flat[j].set = id
        present == SelectSeq(ids, Present)
        PropsOf(id) ==
            LET InSet(e) == e.set = id
                mine == SelectSeq(flat, InSet)
            IN  [j \in DOMAIN mine |-> [k |-> mine[j].k, v |-> mine[j].v]]
    IN  [j \in DOMAIN present |->
            [name |-> SetNames[present[j]], props |-> PropsOf(present[j])]]

MaterialNamePalette == {"", "Concrete", "Steel"}

MaterialItems ==
    [tag : {"ok"}, name : MaterialNamePalette]
        \cup [tag : {"nomat", "raises"}, name : {""}]

ItemLists == UNION {[1..n -> MaterialItems] : n \in 0..MaxItems}

NoMaterial == [kind |-> "none", name |-> "", has_set |-> FALSE, items |-> <<>>]

\* what get_material can return, or that it raises
MaterialPalette ==
    {NoMaterial}
    \cup [kind : {"raises", "IfcMaterialProfileSet"}, name : {""},
          has_set : {FALSE}, items : {<<>>}]
    \cup [kind : {"IfcMaterial"}, name : MaterialNamePalette,
          has_set : {FALSE}, items : {<<>>}]
    \cup [kind : {"IfcMaterialLayerSetUsage"}, name : {""},
          has_set : {FALSE}, items : {<<>>}]
    \cup [kind : {"IfcMaterialLayerSetUsage"}, name : {""},
          has_set : {TRUE}, items : ItemLists]
    \cup [kind : {"IfcMaterialLayerSet", "IfcMaterialList",
                  "IfcMaterialConstituentSet"}, name : {""},
          has_set : {FALSE}, items : ItemLists]

\* one relation of HasAssociations; kind "raises" is a relation whose
\* traversal raises
AssociationPalette ==
    [kind : {"raises", "IfcRelAssociatesMaterial"}, has_ref : {FALSE},
     item_reference : {""}, identification : {""}, cname : {""}]
    \cup [kind : {"IfcRelAssociatesClassification"}, has_ref : {FALSE},
          item_reference : {""}, identification : {""}, cname : {""}]
    \cup [kind : {"IfcRelAssociatesClassification"}, has_ref : {TRUE},
          item_reference : {"", "03.10"}, identification : {""},
          cname : {"", "Concrete Work"}]
    \cup [kind : {"IfcRelAssociatesClassification"}, has_ref : {TRUE},
          item_reference : {""}, identification : {"E20"},
          cname : {"", "Concrete Work"}]

AssociationLists ==
    UNION {[1..n -> AssociationPalette] : n \in 0..MaxAssociations}

EmptyMap == <<>>
NoModelRec == [status |-> "absent", element_count |-> -1]
NoCrash == [at |-> "none", model_rec |-> NoModelRec, spatial |-> <<>>,
            elements |-> <<>>, writes |-> <<>>]

\* nothing has run
IdleRun ==
    /\ record = NoRecord
    /\ spatial_nodes = <<>>
    /\ sidx = 0
    /\ idx = 0
    /\ rows = <<>>
    /\ model_rec = NoModelRec
    /\ spatial_flushed = <<>>
    /\ element_flushed = <<>>
    /\ writes = <<>>
    /\ assembled = <<>>
    /\ failed = {}
    /\ crash = NoCrash

NoGraph ==
    /\ rels = <<>>
    /\ etype = <<>>
    /\ children = <<>>
    /\ total = 0

OneVolumeSet ==
    <<[name |-> SetNames[1],
       props |-> <<[k |-> NetVolumeName, v |-> PyFloat(52567891)]>>]>>

\* one element with any property and quantity sets, or with any material
\* and associations
InitExtract ==
    /\ pc = "extract"
    /\ element = 1
    /\ storey_map = EmptyMap
    /\ NoGraph
    /\ IdleRun
    /\ \/ /\ \E flat \in FlatInputs :
                /\ psets = SetsOf(flat, <<1, 2>>)
                /\ qsets = SetsOf(flat, <<3>>)
          /\ material = NoMaterial
          /\ associations = <<>>
       \/ /\ psets = OneVolumeSet
          /\ qsets = <<>>
          /\ material \in MaterialPalette
          /\ associations \in AssociationLists

SpecExtract == InitExtract /\ [][ExtractElementData]_vars

-----------------------------------------------------------------------------
(* Claims about extract_element_data.                                      *)

RECURSIVE AllProps(_, _)
\* the entries of the sets from set j on, in order
AllProps(sets, j) ==
    IF j > Len(sets) THEN <<>> ELSE sets[j].props \o AllProps(sets, j + 1)

\* the raw entries of the element in scan order
Entries == AllProps(psets, 1) \o AllProps(qsets, 1)

NumericFields == {Categories[i] : i \in DOMAIN Categories}

\* the entry holds a value the scan takes as a strictly positive number
Claimable(e) == IsIntOrFloat(e.v) /\ ToFloat(e.v) > 0

\* the first claimable entry whose key matches category c, 0 if none
FirstMatch(c) ==
    LET hits == {j \in DOMAIN Entries :
                    Claimable(Entries[j]) /\ Matches(Entries[j].k, c)}
    IN  IF hits = {} THEN 0 ELSE CHOOSE j \in hits : \A h \in hits : j <= h

RECURSIVE Claimer(_)
\* the first claimable entry whose key matches category Categories[ci] and
\* that no earlier category of the chain takes, 0 if none
Claimer(ci) ==
    LET Free(j) ==
            \A di \in 1..(ci - 1) :
                Matches(Entries[j].k, Categories[di])
                    => (Claimer(di) # 0 /\ Claimer(di) < j)
        hits == {j \in DOMAIN Entries :
                    /\ Claimable(Entries[j])
                    /\ Matches(Entries[j].k, Categories[ci])
                    /\ Free(j)}
    IN  IF hits = {} THEN 0 ELSE CHOOSE j \in hits : \A h \in hits : j <= h

\* C1 as stated: each numeric field is 0.0 or the (rounded) value of the
\* first strictly positive numeric entry, in scan order, whose key matches
\* the field's category
C1_FirstMatchWins ==
    pc = "extracted" =>
        \A c \in NumericFields :
            \/ record[c] = 0
            \/ /\ FirstMatch(c) # 0
               /\ record[c] = Round6(ToFloat(Entries[FirstMatch(c)].v))

\* C1 amended: each numeric field is 0.0 when no entry qualifies for it and
\* else the rounded value of the first entry, in scan order, that holds a
\* strictly positive number, whose key matches the field's category and that
\* no earlier category of the chain volume, area, height, length, width,
\* perimeter, weight takes; later entries never change it
C1_FirstFreeMatchWins ==
    pc = "extracted" =>
        \A ci \in DOMAIN Categories :
            record[Categories[ci]] =
                IF Claimer(ci) = 0 THEN 0
                ELSE Round6(ToFloat(Entries[Claimer(ci)].v))

\* a field was claimed and a later claimable entry with a matching key and
\* another value was ignored
C1_Witness ==
    /\ pc = "extracted"
    /\ \E ci \in DOMAIN Categories :
          /\ Claimer(ci) # 0
          /\ record[Categories[ci]] # 0
          /\ \E j \in DOMAIN Entries :
                /\ j > Claimer(ci)
                /\ Claimable(Entries[j])
                /\ Matches(Entries[j].k, Categories[ci])
                /\ Round6(ToFloat(Entries[j].v)) # record[Categories[ci]]

\* C2: a numeric field that is not 0.0 holds the value of an entry whose raw
\* value is an int or a float, never that of a string, a boolean or an
\* entity reference
C2_OnlyNumbersClaim ==
    pc = "extracted" =>
        \A c \in NumericFields :
            record[c] # 0 =>
                \E j \in DOMAIN Entries :
                    /\ Entries[j].v.t \in {"int", "float"}
                    /\ Matches(Entries[j].k, c)
                    /\ record[c] = Round6(ToFloat(Entries[j].v))

\* the traversed items of the material, when the code traverses any
TraversedItems ==
    IF \/ material.kind \in {"IfcMaterialLayerSet", "IfcMaterialList",
                             "IfcMaterialConstituentSet"}
       \/ (material.kind = "IfcMaterialLayerSetUsage" /\ material.has_set)
    THEN material.items ELSE <<>>

\* the association is absent, or an error is raised while traversing it
MaterialResolutionFails ==
    \/ material.kind \in {"none", "raises"}
    \/ \E j \in DOMAIN TraversedItems : TraversedItems[j].tag = "raises"
    \/ /\ material.kind = "IfcMaterialList"
       /\ \E j \in DOMAIN TraversedItems : TraversedItems[j].tag = "nomat"

\* C7: a material resolution failure yields an empty materials list, and
\* the record is still produced
C7_FailureYieldsNoMaterials ==
    pc = "extracted" =>
        /\ record # NoRecord
        /\ MaterialResolutionFails => record.materials = <<>>

\* C8: the classifications are the strings of all classification relations
\* whose traversal does not raise, in the model's order
C8_OnlyFailingRelationDropped ==
    pc = "extracted" =>
        LET Good(r) == r.kind = "IfcRelAssociatesClassification" /\ r.has_ref
            good == SelectSeq(associations, Good)
        IN  record.classifications =
                NonEmptyTexts([j \in DOMAIN good |-> ClassificationString(good[j])])

-----------------------------------------------------------------------------
(* The explored containment relations.                                     *)

\* ids of the elements the relations list; element 3 is in no relation
ContainedIds == {1, 2}
ElementIds == ContainedIds \cup {3}

ElementLists == {<<1>>, <<2>>, <<1, 2>>}

\* raises_at = -1: the relation is traversed without error; 0: reading the
\* relation's structure raises; j > 0: the id of its j-th element raises
RelPalette ==
    {r \in [has_structure : BOOLEAN,
            name : {"", "Level 1"},
            long_name : {"", "Zone A"},
            elems : ElementLists,
            raises_at : -1..2] :
        /\ r.raises_at <= Len(r.elems)
        /\ r.name # "" => r.long_name = ""
        /\ ~r.has_structure =>
              (r.name = "" /\ r.long_name = "" /\ r.raises_at <= 0)}

RelLists == UNION {[1..n -> RelPalette] : n \in 0..MaxRels}

\* a model with any containment relations, and one of its elements
InitStorey ==
    /\ pc = "storey"
    /\ element \in {1, 3}
    /\ psets = OneVolumeSet
    /\ qsets = <<>>
    /\ material = NoMaterial
    /\ associations = <<>>
    /\ rels \in RelLists
    /\ etype = <<>>
    /\ children = <<>>
    /\ total = 0
    /\ storey_map = EmptyMap
    /\ IdleRun

NextStorey == BuildStoreyMap \/ ExtractElementData

SpecStorey == InitStorey /\ [][NextStorey]_vars

-----------------------------------------------------------------------------
(* Claims about build_storey_map.                                          *)

\* the relation is traversed without error
Sound(r) == rels[r].raises_at = -1

\* C6: every element listed in a containment relation that does not fail
\* is in the returned map, wherever the failing relation stands
C6_OnlyFailingRelationSkipped ==
    pc # "storey" =>
        \A r \in DOMAIN rels :
            (Sound(r) /\ rels[r].has_structure) =>
                \A j \in DOMAIN rels[r].elems :
                    rels[r].elems[j] \in DOMAIN storey_map

\* the first relation whose traversal raises, Len(rels) + 1 if none
FailPoint ==
    LET bad == {r \in DOMAIN rels : ~Sound(r)}
    IN  IF bad = {} THEN Len(rels) + 1
        ELSE CHOOSE r \in bad : \A b \in bad : r <= b

\* the relations whose processing assigned a floor name to element e
Assigning(e) ==
    {r \in DOMAIN rels :
        /\ rels[r].has_structure
        /\ \E j \in DOMAIN rels[r].elems :
              /\ rels[r].elems[j] = e
              /\ \/ r < FailPoint
                 \/ (r = FailPoint /\ j < rels[r].raises_at)}

LastOf(S) == CHOOSE r \in S : \A q \in S : q <= r

\* C10: the map entry of an element is the display name of the structure of
\* the last processed relation that lists it, an element no processed
\* relation lists has no entry, and floor_name is that name or ""
C10_LastRelationWins ==
    /\ pc # "storey" =>
          \A e \in ElementIds :
              IF Assigning(e) = {} THEN e \notin DOMAIN storey_map
              ELSE /\ e \in DOMAIN storey_map
                   /\ storey_map[e] = DisplayName(rels[LastOf(Assigning(e))])
    /\ pc = "extracted" =>
          record.floor_name =
              IF Assigning(element) = {} THEN ""
              ELSE DisplayName(rels[LastOf(Assigning(element))])

\* the element is in two processed relations of structures with different
\* display names and its record carries the later one
C10_Witness ==
    /\ pc = "extracted"
    /\ \E r1, r2 \in Assigning(element) :
          /\ r1 < r2
          /\ r2 = LastOf(Assigning(element))
          /\ DisplayName(rels[r1]) # DisplayName(rels[r2])
          /\ record.floor_name = DisplayName(rels[r2])
          /\ record.floor_name # ""

-----------------------------------------------------------------------------
(* The explored decomposition graphs.                                      *)

EntityIds == 1..MaxEntities

TypePalette == {"IfcProject", "IfcSite", "IfcWall"}

\* a decomposition edge: the parent and one of its related objects
EdgePairs == {pair \in EntityIds \X EntityIds : pair[1] # pair[2]}

EdgeLists == UNION {[1..n -> EdgePairs] : n \in 0..MaxEdges}

\* the related objects of every entity, in the order of the edges
ChildrenOf(edges) ==
    [e \in EntityIds |->
        LET From(pair) == pair[1] = e
            mine == SelectSeq(edges, From)
        IN  [j \in DOMAIN mine |-> mine[j][2]]]

\* the entities e can reach in at most n decomposition steps
RECURSIVE Descendants(_, _, _)
Descendants(kids, e, n) ==
    IF n = 0 THEN {}
    ELSE LET direct == {kids[e][j] : j \in DOMAIN kids[e]}
         IN  direct \cup UNION {Descendants(kids, d, n - 1) : d \in direct}

Acyclic(kids) ==
    \A e \in DOMAIN kids : e \notin Descendants(kids, e, Cardinality(DOMAIN kids))

\* a model with any acyclic decomposition graph
InitTree ==
    /\ pc = "tree"
    /\ \E edges \in EdgeLists : children = ChildrenOf(edges)
    /\ Acyclic(children)
    /\ etype \in [EntityIds -> TypePalette]
    /\ element = 1
    /\ psets = <<>>
    /\ qsets = <<>>
    /\ material = NoMaterial
    /\ associations = <<>>
    /\ rels = <<>>
    /\ total = 0
    /\ storey_map = EmptyMap
    /\ IdleRun

SpecTree == InitTree /\ [][BuildSpatialTree]_vars

-----------------------------------------------------------------------------
(* Claims about build_spatial_tree.                                        *)

\* the ids the parent links of the node list lead to from id in at most n
\* steps
RECURSIVE Ancestors(_, _)
Ancestors(id, n) ==
    IF n = 0 THEN {}
    ELSE LET direct == {spatial_nodes[k].parent_express_id :
                           k \in {m \in DOMAIN spatial_nodes :
                                     /\ spatial_nodes[m].express_id = id
                                     /\ spatial_nodes[m].parent_express_id # Absent}}
         IN  direct \cup UNION {Ancestors(p, n - 1) : p \in direct}

\* C9: the node list of an acyclic model is a forest in pre-order: a present
\* parent id is the id of a node that stands earlier in the list, only the
\* nodes of project entry points have no parent, and no node is its own
\* ancestor along the parent links
C9_ForestInPreOrder ==
    pc = "treed" =>
        /\ \A k \in DOMAIN spatial_nodes :
              IF spatial_nodes[k].parent_express_id = Absent
              THEN spatial_nodes[k].ifc_type = "IfcProject"
              ELSE \E m \in 1..(k - 1) :
                      spatial_nodes[m].express_id
                          = spatial_nodes[k].parent_express_id
        /\ Cardinality({k \in DOMAIN spatial_nodes :
                           spatial_nodes[k].parent_express_id = Absent})
              = Cardinality({e \in DOMAIN etype : etype[e] = "IfcProject"})
        /\ \A k \in DOMAIN spatial_nodes :
              spatial_nodes[k].express_id
                  \notin Ancestors(spatial_nodes[k].express_id,
                                   Cardinality(DOMAIN etype))

\* a project with a child that has a child of its own: three nodes in a chain
C9_Witness ==
    /\ pc = "treed"
    /\ \E k, m \in DOMAIN spatial_nodes :
          /\ spatial_nodes[k].parent_express_id = spatial_nodes[m].express_id
          /\ spatial_nodes[m].parent_express_id # Absent
          /\ m < k

-----------------------------------------------------------------------------
(* The explored runs of parse_ifc_file.                                    *)

\* numbers of spatial entities and of elements of the explored models: a
\* model with more than one spatial batch has few elements
ModelSizes ==
    ({0, 2} \X {0, 2, ELEMENT_BATCH, 2 * ELEMENT_BATCH + ExtraElements})
        \cup ({SPATIAL_BATCH + ExtraNodes} \X {0, 2})

\* a project decomposed into ns - 1 sites
StarTypes(ns) == [e \in 1..ns |-> IF e = 1 THEN "IfcProject" ELSE "IfcSite"]
StarChildren(ns) ==
    [e \in 1..ns |-> IF e = 1 THEN [j \in 1..(ns - 1) |-> j + 1] ELSE <<>>]

Init ==
    /\ pc = "start"
    /\ \E size \in ModelSizes :
          /\ etype = StarTypes(size[1])
          /\ children = StarChildren(size[1])
          /\ total = size[2]
          /\ rels = IF size[2] = 0 THEN <<>>
                    ELSE <<[has_structure |-> TRUE, name |-> "Level 1",
                            long_name |-> "", elems |-> <<size[1] + 1>>,
                            raises_at |-> -1]>>
    /\ element = 0
    /\ psets = <<>>
    /\ qsets = <<>>
    /\ material = NoMaterial
    /\ associations = <<>>
    /\ storey_map = EmptyMap
    /\ IdleRun

Next ==
    \/ InsertModel
    \/ BuildMaps
    \/ FlushSpatialBatch
    \/ ProcessElement
    \/ FinalFlush
    \/ UpdateModel

Spec == Init /\ [][Next]_vars

-----------------------------------------------------------------------------
(* Claims about parse_ifc_file.                                            *)

RECURSIVE Flatten(_, _)
\* the batches from batch j on, one after the other
Flatten(batches, j) ==
    IF j > Len(batches) THEN <<>>
    ELSE batches[j] \o Flatten(batches, j + 1)

\* C3: while no flush fails, every element batch has 1 to 1000 records,
\* every batch but a last one flushed after the loop has exactly 1000, and
\* the batches, one after the other, are the assembled records in assembly
\* order: all of them once the loop and its final flush are over, all but
\* the pending rows before
C3_ElementBatches ==
    crash.at = "none" =>
        /\ \A k \in DOMAIN element_flushed :
              /\ Len(element_flushed[k]) >= 1
              /\ Len(element_flushed[k]) <= ELEMENT_BATCH
              /\ (k < Len(element_flushed) \/ pc \in {"start", "build", "spatial", "elements"})
                    => Len(element_flushed[k]) = ELEMENT_BATCH
        /\ pc \in {"start", "build", "spatial", "elements"} =>
              Flatten(element_flushed, 1) \o rows = assembled
        /\ pc \in {"update", "done"} =>
              Flatten(element_flushed, 1) = assembled

\* a finished run that flushed two full batches and a shorter last one
C3_Witness ==
    /\ pc = "done"
    /\ crash.at = "none"
    /\ Len(element_flushed) = 3
    /\ Len(element_flushed[3]) < ELEMENT_BATCH
    /\ Len(assembled) > 2 * ELEMENT_BATCH

\* C4: once a flush of a spatial or element batch has failed, the boundary
\* stays as it was at the failure (no further write, the earlier batches
\* unchanged) and parse_status stays "parsing"
C4_FlushFailureHalts ==
    crash.at \in {"spatial_batch", "element_batch"} =>
        /\ model_rec = crash.model_rec
        /\ model_rec.status = "parsing"
        /\ spatial_flushed = crash.spatial
        /\ element_flushed = crash.elements
        /\ writes = crash.writes

\* a flush failed after a batch had been persisted, and another time with
\* elements still to process
C4_Witness ==
    /\ pc = "crashed"
    /\ crash.at = "element_batch"
    /\ Len(element_flushed) >= 1
    /\ idx < total
    /\ model_rec.status = "parsing"

\* the records of the elements at positions 1..n whose assembly did not raise
Survivors(n) ==
    LET Ok(k) == k \notin failed
        kept == SelectSeq([k \in 1..n |-> k], Ok)
    IN  [j \in DOMAIN kept |-> ElementId(kept[j])]

WriteRank(kind) ==
    IF kind = "model_insert" THEN 1
    ELSE IF kind = "spatial_batch" THEN 2
    ELSE IF kind = "element_batch" THEN 3
    ELSE 4

RECURSIVE TotalLen(_, _)
\* the number of records in the batches from batch j on
TotalLen(batches, j) ==
    IF j > Len(batches) THEN 0
    ELSE Len(batches[j]) + TotalLen(batches, j + 1)

\* C11: the boundary writes of a run are the insert of the model record
\* with status parsing, then the spatial batches (the consecutive chunks of
\* 500 nodes of the tree in pre-order, only the last one shorter), then the
\* element batches, then one update to done; done is written at most once
\* and only when every spatial node and every assembled record is flushed
C11_WriteOrder ==
    /\ \A i, j \in DOMAIN writes :
          i < j => WriteRank(writes[i]) <= WriteRank(writes[j])
    /\ writes # <<>> => writes[1] = "model_insert"
    /\ Cardinality({i \in DOMAIN writes : writes[i] = "model_insert"})
          = (IF model_rec.status = "absent" THEN 0 ELSE 1)
    /\ Cardinality({i \in DOMAIN writes : writes[i] = "model_update"})
          = (IF model_rec.status = "done" THEN 1 ELSE 0)
    /\ Cardinality({i \in DOMAIN writes : writes[i] = "spatial_batch"})
          = Len(spatial_flushed)
    /\ Cardinality({i \in DOMAIN writes : writes[i] = "element_batch"})
          = Len(element_flushed)
    /\ model_rec.status \in {"absent", "parsing", "done"}
    /\ \A k \in DOMAIN spatial_flushed :
          /\ Len(spatial_flushed[k]) >= 1
          /\ Len(spatial_flushed[k]) <= SPATIAL_BATCH
          /\ k * SPATIAL_BATCH < Len(spatial_nodes)
                => Len(spatial_flushed[k]) = SPATIAL_BATCH
          /\ \A j \in DOMAIN spatial_flushed[k] :
                /\ (k - 1) * SPATIAL_BATCH + j <= Len(spatial_nodes)
                /\ spatial_flushed[k][j]
                      = spatial_nodes[(k - 1) * SPATIAL_BATCH + j]
    /\ element_flushed # <<>> =>
          TotalLen(spatial_flushed, 1) = Len(spatial_nodes)
    /\ model_rec.status = "done" =>
          /\ writes[Len(writes)] = "model_update"
          /\ spatial_nodes = SpatialTree(etype, children)
          /\ TotalLen(spatial_flushed, 1) = Len(spatial_nodes)
          /\ Flatten(element_flushed, 1) = assembled

\* a finished run that wrote two spatial batches and an element batch
C11_Witness ==
    /\ model_rec.status = "done"
    /\ Len(spatial_flushed) = 2
    /\ Len(spatial_flushed[2]) < SPATIAL_BATCH
    /\ Len(element_flushed) >= 1
    /\ Len(writes) = 5

\* C12: when the status is set to done, element_count is the number of
\* candidate elements selected, not the number of element records flushed:
\* it exceeds the flushed records by exactly the number of elements whose
\* assembly failed, and equals them only when none failed
C12_CountIsCandidates ==
    model_rec.status = "done" =>
        /\ model_rec.element_count = total
        /\ failed \subseteq 1..total
        /\ model_rec.element_count - TotalLen(element_flushed, 1)
              = Cardinality(failed)
        /\ (model_rec.element_count = TotalLen(element_flushed, 1))
              <=> (failed = {})

\* a finished run whose count is larger than the number of flushed records
C12_Witness ==
    /\ model_rec.status = "done"
    /\ failed # {}
    /\ TotalLen(element_flushed, 1) >= 1
    /\ model_rec.element_count > TotalLen(element_flushed, 1)

=============================================================================
